---- MODULE Spec2Model ----
(***************************************************************************)
(* Model of crank/feature/feature.py: the Feature class (construction,     *)
(* analyze, the per-stage methods, the HDF5 store) and the ITU-G.729       *)
(* window generator.                                                       *)
(*                                                                         *)
(* External collaborators (soundfile, sprocket, librosa, crank.utils) are  *)
(* inputs: each analyze call receives a record env that says which         *)
(* external call raises (if any) and what arrays the externals return.     *)
(* A feature array is a record [utt, call, src, data]: the wav file and    *)
(* the analyze call it was computed from, the kind of samples it was       *)
(* computed from, and (where the code depends on it) its content.          *)
(***************************************************************************)
EXTENDS Integers, Sequences, FiniteSets, TLC

VARIABLES inst, conf, sconf, windows, feats, self_fs, h5, wav, ncalls, last,
          length, win, wstate

vars == <<inst, conf, sconf, windows, feats, self_fs, h5, wav, ncalls, last,
          length, win, wstate>>

featvars == <<inst, conf, sconf, windows, feats, self_fs, h5, wav, ncalls, last>>
winvars == <<length, win, wstate>>

(***************************************************************************)
(* Bounds                                                                  *)
(***************************************************************************)
MaxCalls == 2
MaxAt == 2
MaxFrames == 2
MaxSamples == 1
MaxLength == 60

(***************************************************************************)
(* Input domains                                                           *)
(***************************************************************************)
Wavfs == { [dir |-> "wav/spkr1", stem |-> "a"],
           [dir |-> "wav/spkr1", stem |-> "b"],
           [dir |-> "wav/spkr2", stem |-> "a"] }
Stems == { w.stem : w \in Wavfs }
FsSet == {16000, 22050}
FftlSet == {256, 1024}
WindowTypeLists == { <<"hann", "hamming", "itu-g">>,
                     <<"hann", "blackman">>,
                     <<"blackman", "hann">>,
                     <<"hamming">> }
\* every sample rate and FFT length with the reference window alone, and
\* every window-type list with one sample rate and FFT length
ConfSet ==
  [fs : FsSet, fftl : FftlSet, window_types : { <<"hann">> }]
  \cup [fs : {22050}, fftl : {1024}, window_types : WindowTypeLists]
SconfSet == [npow : {1}]
NpowVals == {0, 2}
Amplitudes == {-2, -1, 0, 1, 2}

RECURSIVE SeqsUpTo(_, _)
SeqsUpTo(S, n) ==
  IF n = 0 THEN { <<>> }
  ELSE LET shorter == SeqsUpTo(S, n - 1)
       IN shorter \cup { Append(q, e) : q \in shorter, e \in S }

FailPoints == { "none", "sf.read", "feat.analyze", "feat.mcep", "feat.codeap",
                "synthesis", "sf.write", "sf.read2", "librosa.stft",
                "mlfb2wavf", "HDF5", "h5.save" }

NoConf == [fs |-> 0, fftl |-> 0, window_types |-> <<>>]
NoSconf == [npow |-> 0]
NoLast == [wavf |-> [dir |-> "", stem |-> ""], synth_flag |-> FALSE,
           existed |-> FALSE, exc |-> "none", calls |-> {}]

(***************************************************************************)
(* Python dict with insertion order: a sequence of [k, v] records          *)
(***************************************************************************)
Keys(d) == { d[i].k : i \in 1..Len(d) }
Has(d, k) == k \in Keys(d)
Get(d, k) == d[CHOOSE i \in 1..Len(d) : d[i].k = k].v
Put(d, k, v) ==
  IF Has(d, k)
  THEN [i \in 1..Len(d) |-> IF d[i].k = k THEN [k |-> k, v |-> v] ELSE d[i]]
  ELSE Append(d, [k |-> k, v |-> v])

(***************************************************************************)
(* Exceptions: a stage state s carries exc, "none" or the name of what      *)
(* raised (an external call, "AssertionError", numpy's "ValueError"); once *)
(* set, the statements that follow (each written IF Raised(s) THEN s) are  *)
(* skipped.                                                                *)
(***************************************************************************)
Raised(s) == s.exc # "none"
Raise(s, e) == [s EXCEPT !.exc = e]
Call(s, name) == [s EXCEPT !.calls = @ \cup {name}]
Set(s, k, v) == [s EXCEPT !.feats = Put(@, k, v)]

Min(a, b) == IF a < b THEN a ELSE b
Max(a, b) == IF a > b THEN a ELSE b

(***************************************************************************)
(* External collaborators                                                  *)
(***************************************************************************)
\* sf.read(wavf): the samples of the file, unfiltered
sf_read(wavf) == [utt |-> wavf, lowcut |-> FALSE]
\* crank.utils.low_cut_filter(x, fs, cutoff=70)
low_cut_filter(x) == [x EXCEPT !.lowcut = TRUE]
\* Path(wavf).stem
stem(wavf) == wavf.stem
\* np.clip(a, lo, hi), elementwise
np_clip(a, lo, hi) == [i \in 1..Len(a) |-> Max(lo, Min(hi, a[i]))]

\* An array computed during call number c from samples x, with content data
Arr(x, c, data) ==
  [utt |-> x.utt, call |-> c,
   src |-> {IF x.lowcut THEN "lowcut" ELSE "raw"}, data |-> data]
\* An array derived from other arrays (same utterance, same call)
Derived(a, b, data) ==
  [utt |-> a.utt, call |-> a.call, src |-> a.src \cup b.src, data |-> data]

(***************************************************************************)
(* Feature._generate_window                                                *)
(***************************************************************************)
KnownWindows == {"hann", "hamming", "itu-g"}

\* One iteration of the for loop; g = [windows, win, exc]; win is the local
\* variable, "unbound" until an if/elif branch assigns it. A window array is
\* kept as the generator call that produced it, [gen, length]; the array
\* itug_729_window returns is computed by the operator of that name below.
GenerateWindowStep(g, win_type, fftl) ==
  LET w == IF win_type = "hann" THEN [gen |-> "sp.hann", length |-> fftl]
           ELSE IF win_type = "hamming" THEN [gen |-> "sp.hamming", length |-> fftl]
           ELSE IF win_type = "itu-g" THEN [gen |-> "itug_729_window", length |-> fftl]
           ELSE g.win
  IN IF g.exc # "none" THEN g
     ELSE IF w.gen = "unbound" THEN [g EXCEPT !.exc = "UnboundLocalError"]
     ELSE [g EXCEPT !.win = w, !.windows = Put(@, win_type, w)]

RECURSIVE GenerateWindowLoop(_, _, _, _)
GenerateWindowLoop(g, types, i, fftl) ==
  IF i > Len(types) THEN g
  ELSE GenerateWindowLoop(GenerateWindowStep(g, types[i], fftl), types, i + 1, fftl)

_generate_window(c) ==
  LET g0 == [windows |-> <<>>, win |-> [gen |-> "unbound", length |-> 0],
             exc |-> "none"]
  IN IF ~(\E i \in 1..Len(c.window_types) : c.window_types[i] = "hann")
     THEN [g0 EXCEPT !.exc = "AssertionError"]
     ELSE GenerateWindowLoop(g0, c.window_types, 1, c.fftl)

(***************************************************************************)
(* Feature.__init__                                                        *)
(***************************************************************************)
__init__(c, sc) ==
  /\ inst = "none"
  /\ LET g == _generate_window(c)
     IN IF g.exc = "none"
        THEN /\ inst' = "ok"
             /\ windows' = g.windows
        ELSE /\ inst' = g.exc
             /\ windows' = <<>>
  /\ conf' = c
  /\ sconf' = sc
  /\ feats' = <<>>
  /\ UNCHANGED <<self_fs, h5, wav, ncalls, last, winvars>>

(***************************************************************************)
(* Feature._open_wavf                                                      *)
(***************************************************************************)
_open_wavf(s, wavf, env) ==
  IF env.fail = "sf.read"
  THEN Raise(Call(s, "sf.read"), "sf.read")
  ELSE [Call(Call(s, "sf.read"), "low_cut_filter") EXCEPT
          !.ret = [fs |-> env.fs, x |-> low_cut_filter(sf_read(wavf)),
                   flbl |-> stem(wavf)]]

(***************************************************************************)
(* Feature._analyze_world_features (f0_only = False, as analyze calls it)  *)
(***************************************************************************)
\* the condition with the sample-rate bound off by one
CapEnabled_inclusive(c) == c.fftl # 256 /\ c.fs >= 16000

\* the condition of line 95
CapEnabled(c) == c.fftl # 256 /\ c.fs > 16000

_analyze_world_features(s0, x, c, env) ==
  LET analyze_(s) == IF Raised(s) THEN s ELSE
        IF env.fail = "feat.analyze"
        THEN Raise(Call(s, "feat.analyze"), "feat.analyze")
        ELSE LET f0 == Arr(x, s.call, <<>>)
                 a1 == Set(Set(Set(Call(s, "feat.analyze"), "f0", f0),
                               "spc", f0), "ap", f0)
                 a2 == Set(Set(a1, "uv", Derived(f0, f0, <<>>)),
                           "cf0", Derived(f0, f0, <<>>))
                 a3 == Set(a2, "lf0", Derived(Get(a2.feats, "f0"), f0, <<>>))
             IN Set(a3, "lcf0", Derived(Get(a3.feats, "cf0"), f0, <<>>))
      mcep_(s) == IF Raised(s) THEN s ELSE
        IF env.fail = "feat.mcep"
        THEN Raise(Call(s, "feat.mcep"), "feat.mcep")
        ELSE Set(Call(s, "feat.mcep"), "mcep", Arr(x, s.call, <<>>))
      npow_(s) == IF Raised(s) THEN s ELSE
        Set(Call(s, "feat.npow"), "npow", Arr(x, s.call, env.npow))
      codeap_(s) == IF Raised(s) THEN s ELSE
        IF ~CapEnabled(c) THEN s
        ELSE IF env.fail = "feat.codeap"
        THEN Raise(Call(s, "feat.codeap"), "feat.codeap")
        ELSE LET cap == Arr(x, s.call, <<>>)
                 b1 == Set(Call(s, "feat.codeap"), "cap", cap)
                 b2 == Set(b1, "ccap", Derived(cap, cap, <<>>))
             IN Set(b2, "cap_uv", Derived(cap, cap, <<>>))
  IN codeap_(npow_(mcep_(analyze_(s0))))

(***************************************************************************)
(* Feature._synthesize_world_features                                      *)
(***************************************************************************)
\* sf.write(name, data): the file of that name now holds the array handed
\* to the writer
WriteFile(files, name, data) ==
  { f \in files : f.name # name } \cup { [name |-> name, data |-> data] }

\* the array handed to sf.write on line 122
WrittenAnasyn(anasyn, clipped) == anasyn

_synthesize_world_features(s0, flbl, env) ==
  LET synthesis_(s) == IF Raised(s) THEN s ELSE
        IF env.fail = "synthesis"
        THEN Raise(Call(s, "synthesis"), "synthesis")
        ELSE LET f0 == Get(s.feats, "f0")
                 mcep == Get(s.feats, "mcep")
             IN Set(Call(s, "synthesis"), "x_anasyn",
                    Derived(f0, mcep, np_clip(env.anasyn, -1, 1)))
      write_(s) == IF Raised(s) THEN s ELSE
        IF env.fail = "sf.write"
        THEN Raise(Call(s, "sf.write"), "sf.write")
        ELSE [Call(s, "sf.write") EXCEPT
                !.wav = WriteFile(@, <<flbl, "anasyn">>,
                          WrittenAnasyn(env.anasyn,
                                        Get(s.feats, "x_anasyn").data))]
  IN write_(synthesis_(s0))

(***************************************************************************)
(* Feature._analyze_mlfb                                                   *)
(***************************************************************************)
\* len(a[:n]) for an array of length len and n >= 0
SliceLen(len, n) == Min(n, len)
\* numpy broadcasting of two 1-D shapes; -1 when they do not broadcast
BroadcastLen(a, b) ==
  IF a = b THEN a ELSE IF a = 1 THEN b ELSE IF b = 1 THEN a ELSE -1

\* lines 154-157: zeros_like(energy), then energy_uv[:len(npow)] += npow > thr
energy_uv(energy, npow, thr) ==
  LET zeros == [i \in 1..Len(energy) |-> 0]
      mask == [i \in 1..Len(npow) |-> IF npow[i] > thr THEN 1 ELSE 0]
      d == SliceLen(Len(zeros), Len(npow))
  IN IF BroadcastLen(d, Len(mask)) # d
     THEN [exc |-> "ValueError", val |-> zeros]
     ELSE [exc |-> "none",
           val |-> [i \in 1..Len(zeros) |->
                      IF i <= d
                      THEN zeros[i] + mask[IF Len(mask) = 1 THEN 1 ELSE i]
                      ELSE zeros[i]]]

mlfb_name(win_type) == IF win_type = "hann" THEN "mlfb" ELSE "mlfb_" \o win_type

\* the body of the for loop of line 127, for one window type
AnalyzeMlfbStep(s0, x, win_type, sc, env) ==
  LET stft_(s) == IF Raised(s) THEN s ELSE
        IF env.fail = "librosa.stft"
        THEN Raise(Call(s, "librosa.stft"), "librosa.stft")
        ELSE Set(Call(s, "librosa.stft"), mlfb_name(win_type),
                 Arr(x, s.call, <<>>))
      energy_(s) == IF Raised(s) THEN s ELSE
        IF win_type # "hann" THEN s
        ELSE LET energy == Arr(x, s.call, [i \in 1..env.m |-> 0])
                 npow == Get(s.feats, "npow")
                 uv == energy_uv(energy.data, npow.data, sc.npow)
                 e1 == Set(s, "energy", energy)
                 e2 == Set(e1, "energy_uv", Derived(energy, energy, uv.val))
             IN IF uv.exc # "none" THEN Raise(e2, uv.exc)
                ELSE LET e3 == Set(e2, "energy_uv", Derived(energy, npow, uv.val))
                     IN Set(e3, "cenergy",
                            Derived(energy, Get(e3.feats, "energy_uv"), <<>>))
  IN energy_(stft_(s0))

RECURSIVE AnalyzeMlfbLoop(_, _, _, _, _, _)
AnalyzeMlfbLoop(s, x, wins, i, sc, env) ==
  IF i > Len(wins) \/ s.exc # "none" THEN s
  ELSE AnalyzeMlfbLoop(AnalyzeMlfbStep(s, x, wins[i].k, sc, env),
                       x, wins, i + 1, sc, env)

_analyze_mlfb(s, wavf, wins, sc, env) ==
  IF env.fail = "sf.read2"
  THEN Raise(Call(s, "sf.read"), "sf.read2")
  ELSE AnalyzeMlfbLoop(Call(s, "sf.read"), sf_read(wavf), wins, 1, sc, env)

(***************************************************************************)
(* Feature._mlfb2wavf                                                      *)
(***************************************************************************)
RECURSIVE Mlfb2wavfLoop(_, _, _, _, _)
Mlfb2wavfLoop(s, flbl, types, i, env) ==
  IF i > Len(types) \/ s.exc # "none" THEN s
  ELSE LET feat_name == mlfb_name(types[i])
           t == IF env.fail = "mlfb2wavf"
                THEN Raise(Call(s, "mlfb2wavf"), "mlfb2wavf")
                ELSE [Call(s, "mlfb2wavf") EXCEPT
                        !.wav = WriteFile(@, <<flbl, feat_name \o "_gl">>, <<>>)]
       IN Mlfb2wavfLoop(t, flbl, types, i + 1, env)

_mlfb2wavf(s, flbl, c, env) == Mlfb2wavfLoop(s, flbl, c.window_types, 1, env)

(***************************************************************************)
(* Feature._save_hdf5                                                      *)
(***************************************************************************)
\* HDF5(h5f, "a") creates the file; h5.save writes the items in dict order;
\* a save that raises leaves the file with the items written before it.
_save_hdf5(s, h5f, env) ==
  IF env.fail = "HDF5"
  THEN Raise(Call(s, "HDF5"), "HDF5")
  ELSE LET n == Len(s.feats)
           failing == env.fail = "h5.save" /\ env.at < n
           upto == IF failing THEN env.at ELSE n
           t == [Call(s, "HDF5") EXCEPT
                   !.h5[h5f] = [exists |-> TRUE,
                                items |-> { s.feats[i] : i \in 1..upto }]]
       IN IF failing THEN Raise(Call(t, "h5.save"), "h5.save")
          ELSE IF n > 0 THEN Call(t, "h5.save") ELSE t

(***************************************************************************)
(* Feature.analyze                                                         *)
(***************************************************************************)
NoRet == [fs |-> 0, x |-> [utt |-> [dir |-> "", stem |-> ""], lowcut |-> FALSE],
          flbl |-> ""]

\* the existence test left out: every call extracts
ContainerMissing_always(store, h5f) == TRUE

\* line 41: if not h5f.exists()
ContainerMissing(store, h5f) == ~store[h5f].exists

\* lines 42-55, the branch taken when the container does not exist
Extract(s0, wavf, synth_flag, env) ==
  LET flbl == s0.ret.flbl
      world_(s) == IF Raised(s) THEN s ELSE
        _analyze_world_features(s, s0.ret.x, conf, env)
      synth_(s) == IF Raised(s) THEN s ELSE IF synth_flag /\ conf.fftl # 256
                   THEN _synthesize_world_features(s, flbl, env) ELSE s
      mlfb_(s) == IF Raised(s) THEN s ELSE
        _analyze_mlfb(s, wavf, windows, sconf, env)
      gl_(s) == IF Raised(s) THEN s ELSE
        IF synth_flag THEN _mlfb2wavf(s, flbl, conf, env) ELSE s
      save_(s) == IF Raised(s) THEN s ELSE _save_hdf5(s, flbl, env)
  IN save_(gl_(mlfb_(synth_(world_(s0)))))

analyze(wavf, synth_flag, env) ==
  /\ inst = "ok"
  /\ ncalls < MaxCalls
  /\ LET s0 == [feats |-> feats, h5 |-> h5, wav |-> wav, calls |-> {},
                exc |-> "none", fs |-> self_fs, call |-> ncalls + 1,
                ret |-> NoRet]
         s1 == _open_wavf(s0, wavf, env)
         fs_(s) == IF Raised(s) THEN s ELSE [s EXCEPT !.fs = s.ret.fs]
         assert_(s) == IF Raised(s) THEN s ELSE
           IF s.fs # conf.fs THEN Raise(s, "AssertionError") ELSE s
         branch_(s) == IF Raised(s) THEN s ELSE
           IF ContainerMissing(s.h5, s.ret.flbl)
           THEN Extract(s, wavf, synth_flag, env)
           ELSE Call(s, "logging.info:exists")
         s3 == assert_(fs_(s1))
         s4 == branch_(s3)
     IN \E r \in {s4} :
          /\ feats' = r.feats
          /\ h5' = r.h5
          /\ wav' = r.wav
          /\ self_fs' = r.fs
          /\ last' = [wavf |-> wavf, synth_flag |-> synth_flag,
                      existed |-> h5[stem(wavf)].exists,
                      exc |-> r.exc, calls |-> r.calls]
  /\ ncalls' = ncalls + 1
  /\ UNCHANGED <<inst, conf, sconf, windows, winvars>>

(***************************************************************************)
(* itug_729_window                                                         *)
(***************************************************************************)
\* An array element is [f, x, n]: the formula that produced it, the sample
\* index the formula was evaluated at, and how many times it was assigned.
np_zeros(len) == [i \in 0..(len - 1) |-> [f |-> "zero", x |-> 0, n |-> 0]]
\* Python slice bound normalisation for an array of length len
NormIndex(i, len) == IF i < 0 THEN Max(i + len, 0) ELSE Min(i, len)
\* arange[lo:hi] as a sequence
Arange(lo, hi) == [j \in 1..Max(hi - lo, 0) |-> lo + j - 1]
\* -(length // 6) handed to a slice: Python has no negative zero, so for
\* length < 6 the bound is 0
NegSplit(len) == 0 - (len \div 6)

cos_win(xs) == [j \in 1..Len(xs) |-> [f |-> "cos", x |-> xs[j]]]
hamming_win(xs) == [j \in 1..Len(xs) |-> [f |-> "hamming", x |-> xs[j]]]

\* a[start:stop] = vals, with numpy's shape check
SetSlice(a, len, start, stop, vals) ==
  LET lo == NormIndex(start, len)
      hi == NormIndex(stop, len)
      d == Max(hi - lo, 0)
  IN IF a.exc # "none" THEN a
     ELSE IF Len(vals) # d /\ Len(vals) # 1 THEN [a EXCEPT !.exc = "ValueError"]
     ELSE [a EXCEPT !.win =
             [i \in 0..(len - 1) |->
                IF lo <= i /\ i < lo + d
                THEN LET v == vals[IF Len(vals) = 1 THEN 1 ELSE i - lo + 1]
                     IN [f |-> v.f, x |-> v.x, n |-> a.win[i].n + 1]
                ELSE a.win[i]]]

\* line 207: win[-(length // 6):] = cos_win(arange[: length // 6], length)
AssignCos(a, len) ==
  SetSlice(a, len, NegSplit(len), len,
           cos_win(Arange(0, NormIndex(len \div 6, len))))
\* the Hamming formula evaluated at segment-local indices
AssignHamming_local(a, len) ==
  SetSlice(a, len, 0, NegSplit(len),
           hamming_win(Arange(0, len - NormIndex(len \div 6, len))))
\* line 208: win[: -(length // 6)] = hamming_win(arange[length // 6 :], length)
AssignHamming(a, len) ==
  SetSlice(a, len, 0, NegSplit(len),
           hamming_win(Arange(NormIndex(len \div 6, len), len)))

itug_729_window(len) ==
  AssignHamming(AssignCos([exc |-> "none", win |-> np_zeros(len)], len), len)

\* cos_win(x, length) = cos(2 pi x / (2 length / 3 - 1)) is 1.0 exactly when
\* 3x / (2 length - 3) is a whole number of turns
CosIsOne(x, len) == (3 * x) % (2 * len - 3) = 0

ApplyWindow ==
  /\ wstate = "input"
  /\ LET r == itug_729_window(length)
     IN /\ win' = r.win
        /\ wstate' = IF r.exc = "none" THEN "done" ELSE r.exc
  /\ UNCHANGED <<length, featvars>>

(***************************************************************************)
(* Specifications                                                          *)
(***************************************************************************)
NoFile == [exists |-> FALSE, items |-> {}]

InitFeature ==
  /\ inst = "none"
  /\ conf = NoConf
  /\ sconf = NoSconf
  /\ windows = <<>>
  /\ feats = <<>>
  /\ self_fs = 0
  /\ h5 = [f \in Stems |-> NoFile]
  /\ wav = {}
  /\ ncalls = 0
  /\ last = NoLast

Init ==
  /\ InitFeature
  /\ length = 0
  /\ win = <<>>
  /\ wstate = "idle"

\* What the externals do during one analyze call: which call raises (at: the
\* index of the failing h5.save), the sample rate of the file, and the arrays
\* feat.npow(), librosa.stft (m frames) and synthesizer.synthesis return.
Env(fail, at, fs, npow, m, anasyn) ==
  [fail |-> fail, at |-> at, fs |-> fs, npow |-> npow, m |-> m,
   anasyn |-> anasyn]
\* every external failure and a file of another sample rate, fixed arrays
EnvFail ==
  { Env(f, 0, conf.fs, <<2>>, 1, <<0>>) : f \in FailPoints \ {"h5.save"} }
  \cup { Env("h5.save", k, conf.fs, <<2>>, 1, <<0>>) : k \in 0..MaxAt }
  \cup { Env("none", 0, r, <<2>>, 1, <<0>>) : r \in FsSet \ {conf.fs} }
\* no external failure, every array content
EnvData ==
  { Env("none", 0, conf.fs, npow, m, anasyn) :
      npow \in SeqsUpTo(NpowVals, MaxFrames), m \in 0..MaxFrames,
      anasyn \in SeqsUpTo(Amplitudes, MaxSamples) }
ConfData == [fs : {22050}, fftl : {1024}, window_types : {<<"hann">>}]

Construct == \E c \in ConfSet, sc \in SconfSet : __init__(c, sc)
Analyze ==
  \E wavf \in Wavfs, synth_flag \in BOOLEAN, env \in EnvFail :
     analyze(wavf, synth_flag, env)
Next == Construct \/ Analyze
Spec == Init /\ [][Next]_vars

ConstructData == \E c \in ConfData, sc \in SconfSet : __init__(c, sc)
AnalyzeData ==
  \E wavf \in Wavfs, synth_flag \in BOOLEAN, env \in EnvData :
     analyze(wavf, synth_flag, env)
NextData == ConstructData \/ AnalyzeData
SpecData == Init /\ [][NextData]_vars

InitWindow ==
  /\ InitFeature
  /\ length \in 0..MaxLength
  /\ win = <<>>
  /\ wstate = "input"
NextWindow == ApplyWindow
SpecWindow == InitWindow /\ [][NextWindow]_vars

(***************************************************************************)
(* Claims                                                                  *)
(***************************************************************************)
Container(f) == h5[f]
ItemKeys(items) == { it.k : it \in items }
Target == stem(last.wavf)
Called == inst = "ok" /\ ncalls > 0

\* the calls analyze makes on every path, before it looks at the container
LoaderCalls == {"sf.read", "low_cut_filter", "logging.info:exists"}

\* C1: an analyze call whose target container exists when the call is made
\* recomputes nothing: no analyzer, mel analysis, resynthesis or store call
\* is made, the feature dictionary, every container and every diagnostic
\* file are left as they were.
C1_SkipRecomputesNothing ==
  [][(ncalls' = ncalls + 1 /\ h5[stem(last'.wavf)].exists)
       => /\ feats' = feats
          /\ h5' = h5
          /\ wav' = wav
          /\ last'.calls \subseteq LoaderCalls]_vars

\* C1 witness: a second call on an input whose container the first call wrote
C1_Witness ==
  /\ Called /\ ncalls = 2
  /\ last.existed /\ last.exc = "none"
  /\ "logging.info:exists" \in last.calls
  /\ \E i \in 1..Len(feats) : feats[i].v.utt = last.wavf /\ feats[i].v.call = 1

DiagnosticFailures == {"synthesis", "sf.write", "mlfb2wavf"}

\* C2: a call with synth_flag set on an utterance without a container, in
\* which nothing but a diagnostic step raises, writes the container.
C2_DiagnosticNeverAborts ==
  (Called /\ last.synth_flag /\ ~last.existed
     /\ last.exc \in {"none"} \cup DiagnosticFailures)
    => Container(Target).exists

\* C3: an instance exists only if every configured window type is one of
\* hann, hamming, itu-g, and its window table has no other key.
C3_UnknownWindowFailsConstruction ==
  inst = "ok" =>
    /\ \A i \in 1..Len(conf.window_types) : conf.window_types[i] \in KnownWindows
    /\ Keys(windows) \subseteq KnownWindows

\* C4: every array in a container was computed from the container's own
\* utterance, and all of them during one analyze call.
C4_ContainerHoldsOwnUtterance ==
  \A f \in Stems :
    \A it \in Container(f).items :
      /\ stem(it.v.utt) = f
      /\ \A other \in Container(f).items :
           other.v.utt = it.v.utt /\ other.v.call = it.v.call

BaseKeys == {"f0", "spc", "ap", "uv", "cf0", "lf0", "lcf0", "mcep", "npow",
             "mlfb", "energy", "energy_uv", "cenergy"}
CapKeys == {"cap", "ccap", "cap_uv"}

\* C5: after the first, successful analyze call of an instance with
\* window_types = ["hann"] and synth_flag false, the container's keys are
\* the base set when fftl = 256 or fs <= 16000, and the base set plus
\* cap, ccap, cap_uv otherwise.
C5_KeySetByConfiguration ==
  (Called /\ ncalls = 1 /\ conf.window_types = <<"hann">>
     /\ ~last.synth_flag /\ ~last.existed /\ last.exc = "none")
    => /\ Container(Target).exists
       /\ ItemKeys(Container(Target).items) =
            IF conf.fftl = 256 \/ conf.fs <= 16000
            THEN BaseKeys ELSE BaseKeys \cup CapKeys

\* C5 witness: such a call at fs = 16000 with fftl # 256, where only the
\* sample-rate bound keeps the aperiodicity keys out
C5_Witness ==
  /\ Called /\ ncalls = 1 /\ conf.window_types = <<"hann">>
  /\ ~last.synth_flag /\ ~last.existed /\ last.exc = "none"
  /\ conf.fftl # 256 /\ conf.fs = 16000
  /\ ItemKeys(Container(Target).items) = BaseKeys

Split == length \div 6

\* what C6 says of every index but the last: length, one assignment per
\* index, Hamming at original indices s..L-1, cosine at i = 0..s-1
WindowLayout ==
  /\ wstate = "done"
  /\ DOMAIN win = 0..(length - 1)
  /\ \A k \in 0..(length - 1) :
       /\ win[k].n = 1
       /\ k < length - Split => win[k].f = "hamming" /\ win[k].x = k + Split
       /\ k >= length - Split => win[k].f = "cos" /\ win[k].x = k - (length - Split)

\* C6 as written: for L >= 6 the layout holds and the value at index L-1 is
\* the cosine taper at i = 0, which is 1.0.
C6_LastSampleIsOne ==
  (wstate # "input" /\ length >= 6)
    => /\ WindowLayout
       /\ win[length - 1].f = "cos"
       /\ win[length - 1].x = 0
       /\ CosIsOne(win[length - 1].x, length)

\* C6 amended: for L >= 6 the layout holds, the cosine taper at i = 0 (the
\* value 1.0) is at index L-s, and index L-1 holds the taper at i = s-1,
\* which is 1.0 only when s = 1.
C6_TaperStartsAtSplit ==
  (wstate # "input" /\ length >= 6)
    => /\ WindowLayout
       /\ win[length - Split].f = "cos"
       /\ win[length - Split].x = 0
       /\ CosIsOne(win[length - Split].x, length)
       /\ win[length - 1].f = "cos"
       /\ win[length - 1].x = Split - 1
       /\ CosIsOne(win[length - 1].x, length) <=> Split = 1

\* C6 witness: a generated window whose taper is longer than one sample
C6_Witness ==
  /\ wstate = "done" /\ length >= 12
  /\ win[length - Split].x = 0
  /\ win[length - 1].x = Split - 1

\* C7: every array in the feature dictionary was computed from low-cut
\* filtered samples only.
C7_AnalysisUsesFilteredSamples ==
  inst = "ok" => \A i \in 1..Len(feats) : feats[i].v.src = {"lowcut"}

\* C8: whenever the hann pass has computed energy in the last call, the
\* call did not raise in the mask computation and energy_uv has energy's
\* length, is 1 where npow exceeds the threshold and 0 elsewhere and beyond
\* npow's length.
C8_MaskTruncatedOrPadded ==
  (Called /\ ~last.existed /\ last.exc \in {"none", "ValueError"})
    => LET npow == Get(feats, "npow").data
           energy == Get(feats, "energy").data
           uv == Get(feats, "energy_uv").data
       IN /\ last.exc = "none"
          /\ Len(uv) = Len(energy)
          /\ \A i \in 1..Len(energy) :
               uv[i] = IF i <= Len(npow) /\ npow[i] > sconf.npow THEN 1 ELSE 0

AnasynFiles == { f \in wav : f.name = <<Target, "anasyn">> }

\* C9: after a call that ran the resynthesis, the samples in
\* <label>_anasyn.wav lie in [-1, 1] and are the clipped array kept under
\* x_anasyn.
C9_WrittenWaveformIsClipped ==
  (Called /\ last.synth_flag /\ ~last.existed /\ last.exc = "none"
     /\ conf.fftl # 256)
    => \A f \in AnasynFiles :
         /\ \A i \in 1..Len(f.data) : f.data[i] \in -1..1
         /\ f.data = Get(feats, "x_anasyn").data

\* C10: a container exists only if every array of the feature dictionary
\* was written into it, and a call that raised leaves no container behind
\* for its utterance (so that a retry recomputes).
C10_ContainerIsComplete ==
  (Called /\ ~last.existed)
    => /\ Container(Target).exists
            => { feats[i] : i \in 1..Len(feats) } \subseteq Container(Target).items
       /\ last.exc # "none" => ~Container(Target).exists

====
